---- MODULE Spec2Model ----
(***************************************************************************)
(* Model of the LLMduel conversation core: ConversationOrchestrator        *)
(* (src/conversation.py) and LLMClient.generate_response                   *)
(* (src/llm_client.py).                                                    *)
(*                                                                         *)
(* Text is a sequence of tokens.  A Python value that is either a str or   *)
(* None is the record [none, text]: Str(s) for a str, NoneVal for None.    *)
(* A template is a sequence of tokens in which TopicField stands for the   *)
(* replacement field "{topic}", OtherField for a replacement field with    *)
(* any other name, LoneBrace for an unmatched "{" and WS for white space.  *)
(***************************************************************************)
EXTENDS Integers, Sequences, FiniteSets, TLC

\* ---------------------------------------------------------------- bounds
\* Longest transcript explored.
MaxLen == 2
\* Largest turn_number passed to get_next_response.
MaxTurn == 3

\* ------------------------------------------------------------ Python values
NoneVal == [none |-> TRUE, text |-> <<>>]

Str(s) == [none |-> FALSE, text |-> s]

TopicField == "{topic}"

OtherField == "{name}"

LoneBrace == "{"

WS == " "

\* --------------------------------------------------------- template loading
\* The built-in template returned when the file does not exist.
DefaultTemplate ==
    << "You are having a conversation with another AI assistant about: ",
       TopicField,
       "\n\nGuidelines:\n- Keep responses conversational and natural (2-4 sentences typically)\n- Build on what the other assistant has said\n- Feel free to ask questions, agree, disagree, or introduce new perspectives\n- Stay on topic but allow the conversation to evolve naturally\n- Be respectful and constructive in your dialogue" >>

\* The template returned when checking or reading the file raises.
ExceptTemplate ==
    << "You are having a conversation with another AI assistant about: ",
       TopicField >>

\* States of the template file: absent, unreadable, or readable with a text.
TemplateFiles ==
    { [exists |-> FALSE, readable |-> FALSE, text |-> <<>>],
      [exists |-> TRUE,  readable |-> FALSE, text |-> <<>>],
      [exists |-> TRUE,  readable |-> TRUE,  text |-> <<WS, "Discuss ", TopicField, " briefly.", WS>>],
      [exists |-> TRUE,  readable |-> TRUE,  text |-> <<"Have a friendly chat.">>],
      [exists |-> TRUE,  readable |-> TRUE,  text |-> <<"Hello ", OtherField, ", discuss ", TopicField>>],
      [exists |-> TRUE,  readable |-> TRUE,  text |-> <<"Discuss ", TopicField, " as JSON ", LoneBrace>>] }

RECURSIVE LStrip(_)
LStrip(s) == IF s # <<>> /\ Head(s) = WS THEN LStrip(Tail(s)) ELSE s

RECURSIVE RStrip(_)
RStrip(s) ==
    IF s # <<>> /\ s[Len(s)] = WS THEN RStrip(SubSeq(s, 1, Len(s) - 1)) ELSE s

\* str.strip()
Strip(s) == RStrip(LStrip(s))

\* ConversationOrchestrator._load_system_prompt
LoadSystemPrompt(file) ==
    IF file.exists /\ ~file.readable THEN ExceptTemplate
    ELSE IF file.exists THEN Strip(file.text)
    ELSE DefaultTemplate

\* ------------------------------------------------------------- str.format
\* template.format(topic=topic): the replacement field {topic} becomes the
\* topic, a field of another name raises KeyError, an unmatched brace raises
\* ValueError; the first offending token decides.
RECURSIVE Format(_, _)
Format(template, topic) ==
    IF template = <<>> THEN [raised |-> "none", text |-> <<>>]
    ELSE LET tok == Head(template) IN
         IF tok = OtherField THEN [raised |-> "KeyError", text |-> <<>>]
         ELSE IF tok = LoneBrace THEN [raised |-> "ValueError", text |-> <<>>]
         ELSE LET rest == Format(Tail(template), topic) IN
              IF rest.raised # "none" THEN rest
              ELSE [raised |-> "none",
                    text |-> (IF tok = TopicField THEN topic ELSE <<tok>>) \o rest.text]


\* --------------------------------------------------------------- provider
\* What the backend does with one chat-completion request: it answers with
\* a choice whose content is a str or None and with or without token usage,
\* it raises (authentication, network, timeout, backend error), or it
\* answers with an empty list of choices.
Contents == { Str(<<"hello">>), Str(<<>>), NoneVal }

Usage == [none |-> FALSE, text |-> <<"prompt_tokens", "completion_tokens", "total_tokens">>]

Backends ==
    [kind : {"ok"}, content : Contents, has_usage : BOOLEAN]
    \cup [kind : {"exception", "malformed"}, content : {NoneVal}, has_usage : {FALSE}]

\* str(e) of the exception caught in generate_response.
ErrorText(backend) ==
    IF backend.kind = "malformed" THEN Str(<<"list index out of range">>)
    ELSE Str(<<"Request timed out.">>)

\* Mutant: the failure record still reports the elapsed time.
generate_response_TimedFailure(backend) ==
    [success |-> backend.kind = "ok",
     content |-> backend.content,
     finish_reason |-> IF backend.kind = "ok" THEN Str(<<"stop">>) ELSE NoneVal,
     usage |-> IF backend.has_usage THEN Usage ELSE NoneVal,
     elapsed_time |-> Str(<<"elapsed">>),
     error |-> IF backend.kind = "ok" THEN NoneVal ELSE ErrorText(backend)]

\* LLMClient.generate_response: the record it returns for a backend outcome.
generate_response(backend) ==
    IF backend.kind = "ok"
    THEN [success |-> TRUE,
          content |-> backend.content,
          finish_reason |-> Str(<<"stop">>),
          usage |-> IF backend.has_usage THEN Usage ELSE NoneVal,
          elapsed_time |-> Str(<<"elapsed">>),
          error |-> NoneVal]
    ELSE [success |-> FALSE,
          content |-> NoneVal,
          finish_reason |-> NoneVal,
          usage |-> NoneVal,
          elapsed_time |-> NoneVal,
          error |-> ErrorText(backend)]

\* ------------------------------------------------------------ orchestrator
StartPrompt(topic) ==
    Str(<<"Please start a conversation about: ">> \o topic
        \o <<". Share your initial thoughts on this topic in 2-4 sentences.">>)

ContinuePrompt == Str(<<"Please continue the conversation.">>)

\* Mutant: the parity test inverted.
IsModelATurn_Even(turn_number) == turn_number % 2 = 0

\* is_model_a_turn = (turn_number % 2 == 1)
IsModelATurn(turn_number) == turn_number % 2 = 1

SpeakerOf(is_model_a) == IF is_model_a THEN "Model A" ELSE "Model B"

\* The system message: persona, a blank line, the formatted template.
SystemMessage(persona, system_prompt) ==
    [role |-> "system", content |-> Str(persona \o <<"\n\n">> \o system_prompt)]

\* Mutant: the bootstrap branch is taken on any empty transcript.
IsFirstMessage_AnySpeaker(msgs, is_model_a) == Len(msgs) = 0

\* The condition of the bootstrap branch.
IsFirstMessage(msgs, is_model_a) == Len(msgs) = 0 /\ is_model_a

\* Mutant: the parity of the 1-based position is taken instead.
MsgIsFromModelA_OneBased(idx) == idx % 2 = 0

\* msg_is_from_model_a = (i % 2 == 0) for the 0-based index i; idx is 1-based.
MsgIsFromModelA(idx) == (idx - 1) % 2 = 0

\* Mutant: the two roles exchanged.
ReplayRole_Swapped(idx, is_model_a) ==
    IF MsgIsFromModelA(idx) = is_model_a THEN "user" ELSE "assistant"

\* The role given to the transcript entry at 1-based position idx.
ReplayRole(idx, is_model_a) ==
    IF MsgIsFromModelA(idx) = is_model_a THEN "assistant" ELSE "user"

Replay(msgs, is_model_a) ==
    [idx \in 1..Len(msgs) |->
        [role |-> ReplayRole(idx, is_model_a), content |-> msgs[idx].content]]

\* Mutant: the trailing prompt is appended after every replay.
NeedsContinue_Always(view) == Len(view) > 1

\* The condition under which the trailing user prompt is appended.
NeedsContinue(view) == Len(view) > 1 /\ view[Len(view)].role = "assistant"

\* ConversationOrchestrator._build_context_for_model, given the formatted
\* system prompt.
BuildContext(msgs, persona, is_model_a, system_prompt, topic) ==
    LET head == <<SystemMessage(persona, system_prompt)>> IN
    IF IsFirstMessage(msgs, is_model_a)
    THEN head \o <<[role |-> "user", content |-> StartPrompt(topic)]>>
    ELSE LET replayed == head \o Replay(msgs, is_model_a) IN
         IF NeedsContinue(replayed)
         THEN replayed \o <<[role |-> "user", content |-> ContinuePrompt]>>
         ELSE replayed

\* The debug preview of get_next_response takes len() of every content of
\* the view; len(None) raises TypeError.
PreviewRaises(view) == \E i \in 1..Len(view) : view[i].content.none

\* Mutant: the new message is inserted at the front of the transcript.
RecordResult_Prepend(msgs, result, speaker, turn_number) ==
    IF result.success
    THEN <<[content |-> result.content, speaker |-> speaker, turn |-> turn_number]>> \o msgs
    ELSE msgs

\* Mutant: the message is appended whether or not the provider succeeded.
RecordResult_Always(msgs, result, speaker, turn_number) ==
    Append(msgs, [content |-> result.content, speaker |-> speaker, turn |-> turn_number])

\* The transcript after the provider result has been handled.
RecordResult(msgs, result, speaker, turn_number) ==
    IF result.success
    THEN Append(msgs, [content |-> result.content, speaker |-> speaker, turn |-> turn_number])
    ELSE msgs

\* Mutant: reset leaves the transcript as it is.
ResetMessages_Keep(msgs) == msgs

\* self.messages after reset()
ResetMessages(msgs) == <<>>


\* ------------------------------------------------------------------ state
\* The fields of the ConversationOrchestrator, and `last`, the record of
\* the most recent operation on it: its argument, the transcript before it,
\* what it resolved and built, the provider calls it issued, what it
\* returned or raised, and the kind of operation that preceded it.
\* `held` is the list a caller received from get_conversation_transcript
\* and still holds.  `template_file` is the template file on disk.
\* `session_state` is Streamlit's st.session_state of the front-end,
\* `sidebar` the configuration the sidebar widgets hold, and `ui` the record
\* of the most recent script run of the front-end.
VARIABLES model_a_client, model_b_client, model_a_persona, model_b_persona,
          discussion_topic, temperature, system_prompt_template, messages, last,
          held, template_file, session_state, sidebar, ui

vars == << model_a_client, model_b_client, model_a_persona, model_b_persona,
           discussion_topic, temperature, system_prompt_template, messages, last,
           held, template_file, session_state, sidebar, ui >>

\* What the operations of the orchestrator never touch.
frontend == << template_file, session_state, sidebar, ui >>

config == << model_a_client, model_b_client, model_a_persona, model_b_persona,
             discussion_topic, temperature, system_prompt_template >>

Topics == { <<"T">>, <<"The impact of artificial intelligence on society">> }

\* Config.MODEL_A_PERSONA and Config.MODEL_B_PERSONA
PersonaA == <<"You are a thoughtful and analytical assistant who enjoys exploring ideas in depth.">>

PersonaB == <<"You are a creative and curious assistant who likes to ask questions and challenge assumptions.">>

\* Temperatures in tenths.
Temperatures == { 7 }

NoResult ==
    [success |-> FALSE, content |-> NoneVal, finish_reason |-> NoneVal,
     usage |-> NoneVal, elapsed_time |-> NoneVal, error |-> NoneVal,
     speaker |-> "none", turn |-> 0]

NoOp ==
    [op |-> "init", prev |-> "init", turn_number |-> 0, before |-> <<>>, client |-> "none",
     persona |-> <<>>, speaker |-> "none", built |-> FALSE,
     context_messages |-> <<>>, calls |-> <<>>, returned |-> FALSE,
     result |-> NoResult, raised |-> "none", transcript |-> <<>>]

\* Whether the operation before this one was the construction, a reset or
\* another operation.
PrevOp == IF last.op \in {"init", "reset"} THEN last.op ELSE "other"

\* The orchestrator object: its fields as one record.
Self ==
    [model_a_client |-> model_a_client, model_b_client |-> model_b_client,
     model_a_persona |-> model_a_persona, model_b_persona |-> model_b_persona,
     discussion_topic |-> discussion_topic, temperature |-> temperature,
     system_prompt_template |-> system_prompt_template, messages |-> messages]

\* The client and the persona get_next_response selects for the turn.
ActiveClient(self, is_model_a_turn) ==
    IF is_model_a_turn THEN self.model_a_client ELSE self.model_b_client

\* Mutant: Model A's persona is used for both speakers.
ActivePersona_ModelA(self, is_model_a_turn) == self.model_a_persona

ActivePersona(self, is_model_a_turn) ==
    IF is_model_a_turn THEN self.model_a_persona ELSE self.model_b_persona

\* get_next_response(turn_number) on the orchestrator `self`, the provider's
\* backend behaving as `backend` if it is called: the transcript afterwards
\* and the record of the call.  `prev` is the kind of the operation before.
NextResponse(self, prev, turn_number, backend) ==
    LET is_model_a_turn == IsModelATurn(turn_number)
        client == ActiveClient(self, is_model_a_turn)
        persona == ActivePersona(self, is_model_a_turn)
        speaker == SpeakerOf(is_model_a_turn)
        formatted == Format(self.system_prompt_template, self.discussion_topic)
        context_messages == BuildContext(self.messages, persona, is_model_a_turn,
                                         formatted.text, self.discussion_topic)
        result == generate_response(backend)
        call == [op |-> "get_next_response", prev |-> prev, turn_number |-> turn_number,
                 before |-> self.messages, client |-> client, persona |-> persona,
                 speaker |-> speaker, built |-> FALSE, context_messages |-> <<>>,
                 calls |-> <<>>, returned |-> FALSE, result |-> NoResult,
                 raised |-> "none", transcript |-> <<>>]
    IN
    IF formatted.raised # "none"
    THEN [messages |-> self.messages,
          last |-> [call EXCEPT !.raised = formatted.raised]]
    ELSE IF PreviewRaises(context_messages)
    THEN [messages |-> self.messages,
          last |-> [call EXCEPT !.built = TRUE,
                                !.context_messages = context_messages,
                                !.raised = "TypeError"]]
    ELSE [messages |-> RecordResult(self.messages, result, speaker, turn_number),
          last |-> [call EXCEPT
                      !.built = TRUE,
                      !.context_messages = context_messages,
                      !.calls = << [client |-> client,
                                    messages |-> context_messages,
                                    temperature |-> self.temperature] >>,
                      !.returned = TRUE,
                      !.result = [success |-> result.success,
                                  content |-> result.content,
                                  finish_reason |-> result.finish_reason,
                                  usage |-> result.usage,
                                  elapsed_time |-> result.elapsed_time,
                                  error |-> result.error,
                                  speaker |-> speaker,
                                  turn |-> turn_number]]]

\* ------------------------------------------------------- lists and copies
\* A list a caller holds: `alias` says that it is the very list object
\* self.messages is bound to (so it changes with it), `items` are its
\* entries otherwise, `at_return` its entries when it was returned.
NoHeld == [taken |-> FALSE, alias |-> FALSE, items |-> <<>>, at_return |-> <<>>]

\* Mutant: the transcript list itself is returned, not a copy.
ListCopy_Alias(msgs) == [alias |-> TRUE, items |-> msgs]

\* Mutant: the copy misses the most recent entry.
ListCopy_DropLast(msgs) ==
    [alias |-> FALSE, items |-> SubSeq(msgs, 1, Len(msgs) - 1)]

\* self.messages.copy(): a new list object with the same entries.
ListCopy(msgs) == [alias |-> FALSE, items |-> msgs]

\* The entries of the held list now.
HeldValue == IF held.alias THEN messages ELSE held.items

\* ------------------------------------------------------ front-end values
\* min_value of the "Maximum Turns" slider.
MinTurns == 2

ApiKey == <<"sk-key">>

\* Config.MODEL_A_NAME and Config.MODEL_B_NAME
ModelAName == <<"gpt-4.1-mini">>

ModelBName == <<"gpt-4.1-nano">>

\* The configuration dictionary render_sidebar builds from the widgets.
SidebarOf(a_key, b_key, a_name, b_name, topic, max_turns) ==
    [model_a |-> [api_key |-> a_key, name |-> a_name, persona |-> PersonaA],
     model_b |-> [api_key |-> b_key, name |-> b_name, persona |-> PersonaB],
     discussion_topic |-> topic,
     max_turns |-> max_turns,
     temperature |-> 7]

\* The widget contents explored for a turn limit: every topic with all
\* fields filled in, and each required field left empty in turn.
Sidebars(max_turns) ==
    { SidebarOf(ApiKey, ApiKey, ModelAName, ModelBName, topic, max_turns) : topic \in Topics }
    \cup { SidebarOf(<<>>, ApiKey, ModelAName, ModelBName, <<"T">>, max_turns),
           SidebarOf(ApiKey, <<>>, ModelAName, ModelBName, <<"T">>, max_turns),
           SidebarOf(ApiKey, ApiKey, <<>>, ModelBName, <<"T">>, max_turns),
           SidebarOf(ApiKey, ApiKey, ModelAName, <<>>, <<"T">>, max_turns),
           SidebarOf(ApiKey, ApiKey, ModelAName, ModelBName, <<>>, max_turns) }

\* initialize_session_state
InitialSessionState ==
    [conversation_history |-> <<>>,
     is_running |-> FALSE,
     current_turn |-> 0,
     model_a_client |-> "None",
     model_b_client |-> "None",
     stop_requested |-> FALSE,
     orchestrator |-> "None"]

\* No script run of the front-end yet.
NoEvent == [event |-> "none", error |-> NoneVal, requested |-> 0]

\* ConversationOrchestrator.__init__, the orchestrator used directly
\* through its operations, without the front-end.
Init ==
    /\ model_a_client = "client_a"
    /\ model_b_client = "client_b"
    /\ model_a_persona = PersonaA
    /\ model_b_persona = PersonaB
    /\ discussion_topic \in Topics
    /\ temperature \in Temperatures
    /\ template_file \in TemplateFiles
    /\ system_prompt_template = LoadSystemPrompt(template_file)
    /\ messages = <<>>
    /\ last = NoOp
    /\ held = NoHeld
    /\ session_state = InitialSessionState
    /\ sidebar = SidebarOf(ApiKey, ApiKey, ModelAName, ModelBName, discussion_topic, MinTurns)
    /\ ui = NoEvent

\* ConversationOrchestrator.get_next_response(turn_number), the provider's
\* backend behaving as `backend` if it is called.
GetNextResponse(turn_number, backend) ==
    LET out == NextResponse(Self, PrevOp, turn_number, backend) IN
    /\ backend.kind = "ok" => Len(messages) < MaxLen
    /\ messages' = out.messages
    /\ last' = out.last
    /\ UNCHANGED << config, held, frontend >>

\* ConversationOrchestrator.get_conversation_transcript; `keep` says
\* whether the caller goes on holding the list it receives.
GetConversationTranscript(keep) ==
    LET copy == ListCopy(messages) IN
    /\ last' = [NoOp EXCEPT !.op = "get_conversation_transcript",
                            !.prev = IF last.op = "get_conversation_transcript"
                                     THEN last.op ELSE PrevOp,
                            !.before = messages,
                            !.returned = TRUE,
                            !.transcript = copy.items]
    /\ held' = IF keep
               THEN [taken |-> TRUE, alias |-> copy.alias, items |-> copy.items,
                     at_return |-> copy.items]
               ELSE held
    /\ UNCHANGED << config, messages, frontend >>

\* ConversationOrchestrator.reset: self.messages is bound to a new empty
\* list; a list held by a caller keeps the entries it has.
Reset ==
    /\ messages' = ResetMessages(messages)
    /\ last' = [NoOp EXCEPT !.op = "reset", !.prev = PrevOp,
                            !.before = messages, !.returned = TRUE]
    /\ held' = [held EXCEPT !.alias = FALSE, !.items = HeldValue]
    /\ UNCHANGED << config, frontend >>

Next ==
    \/ \E turn_number \in 1..MaxTurn, backend \in Backends :
          GetNextResponse(turn_number, backend)
    \/ GetConversationTranscript(FALSE)
    \/ Reset

Spec == Init /\ [][Next]_vars

\* ------------------------------------------------- callers holding snapshots
\* The orchestrator used by a caller that keeps every list it receives from
\* get_conversation_transcript, over one configuration.
SnapshotBackends ==
    { [kind |-> "ok", content |-> Str(<<"hello">>), has_usage |-> TRUE],
      [kind |-> "exception", content |-> NoneVal, has_usage |-> FALSE] }

InitSnapshot ==
    /\ Init
    /\ ~template_file.exists
    /\ discussion_topic = <<"T">>

NextSnapshot ==
    \/ \E turn_number \in 1..MaxTurn, backend \in SnapshotBackends :
          GetNextResponse(turn_number, backend)
    \/ GetConversationTranscript(TRUE)
    \/ Reset

SpecSnapshot == InitSnapshot /\ [][NextSnapshot]_vars


\* --------------------------------------------------------------- front-end
\* The Streamlit script main(): every action below is one run of the
\* script, from the button that caused it to its end or its st.rerun().

\* Mutant: the discussion topic is not checked.
validate_configuration_NoTopic(cfg) ==
    IF cfg.model_a.api_key = <<>>
    THEN [is_valid |-> FALSE, error_msg |-> Str(<<"Model A API key is required">>)]
    ELSE IF cfg.model_b.api_key = <<>>
    THEN [is_valid |-> FALSE, error_msg |-> Str(<<"Model B API key is required">>)]
    ELSE IF cfg.model_a.name = <<>>
    THEN [is_valid |-> FALSE, error_msg |-> Str(<<"Model A name is required">>)]
    ELSE IF cfg.model_b.name = <<>>
    THEN [is_valid |-> FALSE, error_msg |-> Str(<<"Model B name is required">>)]
    ELSE [is_valid |-> TRUE, error_msg |-> NoneVal]

\* validate_configuration: the first empty required field decides.
validate_configuration(cfg) ==
    IF cfg.model_a.api_key = <<>>
    THEN [is_valid |-> FALSE, error_msg |-> Str(<<"Model A API key is required">>)]
    ELSE IF cfg.model_b.api_key = <<>>
    THEN [is_valid |-> FALSE, error_msg |-> Str(<<"Model B API key is required">>)]
    ELSE IF cfg.model_a.name = <<>>
    THEN [is_valid |-> FALSE, error_msg |-> Str(<<"Model A name is required">>)]
    ELSE IF cfg.model_b.name = <<>>
    THEN [is_valid |-> FALSE, error_msg |-> Str(<<"Model B name is required">>)]
    ELSE IF cfg.discussion_topic = <<>>
    THEN [is_valid |-> FALSE, error_msg |-> Str(<<"Discussion topic is required">>)]
    ELSE [is_valid |-> TRUE, error_msg |-> NoneVal]

\* How the two LLMClient constructions of initialize_clients end: both
\* succeed, the first raises, or the second raises.
ClientOutcomes == {"ok", "fail_a", "fail_b"}

\* Mutant: a client that could not be created is not reported.
initialize_clients_IgnoreFailure(ss, outcome) ==
    IF outcome = "fail_a"
    THEN [session |-> ss, success |-> TRUE, error_msg |-> NoneVal]
    ELSE IF outcome = "fail_b"
    THEN [session |-> [ss EXCEPT !.model_a_client = "client_a"], success |-> TRUE,
          error_msg |-> NoneVal]
    ELSE [session |-> [ss EXCEPT !.model_a_client = "client_a",
                                 !.model_b_client = "client_b"],
          success |-> TRUE, error_msg |-> NoneVal]

\* initialize_clients: the session state afterwards and what it returns.
initialize_clients(ss, outcome) ==
    IF outcome = "fail_a"
    THEN [session |-> ss, success |-> FALSE,
          error_msg |-> Str(<<"Failed to initialize clients: ", "model_a">>)]
    ELSE IF outcome = "fail_b"
    THEN [session |-> [ss EXCEPT !.model_a_client = "client_a"], success |-> FALSE,
          error_msg |-> Str(<<"Failed to initialize clients: ", "model_b">>)]
    ELSE [session |-> [ss EXCEPT !.model_a_client = "client_a",
                                 !.model_b_client = "client_b"],
          success |-> TRUE, error_msg |-> NoneVal]

\* Mutant: the orchestrator survives the reset.
ResetConversationState_KeepOrchestrator(ss) ==
    [ss EXCEPT !.conversation_history = <<>>,
               !.current_turn = 0,
               !.stop_requested = FALSE]

\* Mutant: the turn counter survives the reset.
ResetConversationState_KeepTurn(ss) ==
    [ss EXCEPT !.conversation_history = <<>>,
               !.stop_requested = FALSE,
               !.orchestrator = "None"]

\* "Reset conversation state" of the Start and New Conversation buttons.
ResetConversationState(ss) ==
    [ss EXCEPT !.conversation_history = <<>>,
               !.current_turn = 0,
               !.stop_requested = FALSE,
               !.orchestrator = "None"]

\* The values the orchestrator variables hold while no orchestrator exists.
NoOrchestrator ==
    [model_a_client |-> "None", model_b_client |-> "None",
     model_a_persona |-> <<>>, model_b_persona |-> <<>>,
     discussion_topic |-> <<>>, temperature |-> 0,
     system_prompt_template |-> <<>>, messages |-> <<>>]

\* The orchestrator variables become the fields of the object o.
Bind(o) ==
    /\ model_a_client' = o.model_a_client
    /\ model_b_client' = o.model_b_client
    /\ model_a_persona' = o.model_a_persona
    /\ model_b_persona' = o.model_b_persona
    /\ discussion_topic' = o.discussion_topic
    /\ temperature' = o.temperature
    /\ system_prompt_template' = o.system_prompt_template
    /\ messages' = o.messages

\* ConversationOrchestrator(...) as run_conversation constructs it.
NewOrchestrator(ss, cfg, file) ==
    [model_a_client |-> ss.model_a_client, model_b_client |-> ss.model_b_client,
     model_a_persona |-> cfg.model_a.persona, model_b_persona |-> cfg.model_b.persona,
     discussion_topic |-> cfg.discussion_topic, temperature |-> cfg.temperature,
     system_prompt_template |-> LoadSystemPrompt(file), messages |-> <<>>]

\* Mutant: a turn number is skipped.
NextTurn_SkipOne(current_turn) == current_turn + 2

\* next_turn = st.session_state.current_turn + 1
NextTurn(current_turn) == current_turn + 1

\* Mutant: one more turn is let through.
LimitReached_OffByOne(next_turn, max_turns) == next_turn > max_turns + 1

\* next_turn > max_turns
LimitReached(next_turn, max_turns) == next_turn > max_turns

\* The entry run_conversation appends to conversation_history (its
\* timestamp is left out).
HistoryEntry(result) ==
    [turn |-> result.turn, speaker |-> result.speaker, content |-> result.content,
     usage |-> result.usage, elapsed_time |-> result.elapsed_time]

\* Mutant: the stop changes nothing.
StopSession_Ignored(ss) == ss

\* stop_requested = True and is_running = False, as the Stop button and the
\* failure branch of run_conversation set them.
StopSession(ss) == [ss EXCEPT !.stop_requested = TRUE, !.is_running = FALSE]

\* The Start button, shown while no conversation is running.
PressStart(outcome) ==
    LET v == validate_configuration(sidebar)
        c == initialize_clients(session_state, outcome)
    IN
    /\ ~session_state.is_running
    /\ IF ~v.is_valid
       THEN /\ ui' = [event |-> "start", error |-> v.error_msg, requested |-> 0]
            /\ UNCHANGED << config, messages, last, session_state >>
       ELSE IF ~c.success
       THEN /\ ui' = [event |-> "start", error |-> c.error_msg, requested |-> 0]
            /\ session_state' = c.session
            /\ UNCHANGED << config, messages, last >>
       ELSE /\ ui' = [event |-> "start", error |-> NoneVal, requested |-> 0]
            /\ session_state' = [ResetConversationState(c.session) EXCEPT !.is_running = TRUE]
            /\ Bind(NoOrchestrator)
            /\ last' = NoOp
    /\ UNCHANGED << held, template_file, sidebar >>

\* The Stop button, shown while a conversation is running.
PressStop ==
    /\ session_state.is_running
    /\ session_state' = StopSession(session_state)
    /\ ui' = [event |-> "stop", error |-> NoneVal, requested |-> 0]
    /\ UNCHANGED << config, messages, last, held, template_file, sidebar >>

\* The New Conversation button, shown when there is a history and no
\* conversation is running.
PressNew ==
    /\ session_state.conversation_history # <<>>
    /\ ~session_state.is_running
    /\ session_state' = ResetConversationState(session_state)
    /\ Bind(NoOrchestrator)
    /\ last' = NoOp
    /\ ui' = [event |-> "new", error |-> NoneVal, requested |-> 0]
    /\ UNCHANGED << held, template_file, sidebar >>

\* A script run with no button pressed while a conversation is running:
\* run_conversation(config), the backend behaving as `backend` if called.
RunConversation(backend) ==
    LET fresh == session_state.orchestrator = "None"
        o == IF fresh THEN NewOrchestrator(session_state, sidebar, template_file)
             ELSE Self
        ss == [session_state EXCEPT !.orchestrator = "orchestrator"]
        next_turn == NextTurn(session_state.current_turn)
        max_turns == sidebar.max_turns
        out == NextResponse(o, IF fresh THEN "init" ELSE PrevOp, next_turn, backend)
        result == out.last.result
    IN
    /\ session_state.is_running
    /\ IF LimitReached(next_turn, max_turns) \/ session_state.stop_requested
       THEN /\ session_state' = [ss EXCEPT !.is_running = FALSE]
            /\ Bind(o)
            /\ last' = IF fresh THEN NoOp ELSE last
            /\ ui' = [event |-> "run", error |-> NoneVal, requested |-> 0]
       ELSE /\ Bind([o EXCEPT !.messages = out.messages])
            /\ last' = out.last
            /\ IF out.last.raised # "none"
               THEN /\ session_state' = ss
                    /\ ui' = [event |-> "run", error |-> Str(<<out.last.raised>>),
                              requested |-> next_turn]
               ELSE IF result.success
               THEN /\ session_state' =
                         [ss EXCEPT !.conversation_history =
                                        Append(@, HistoryEntry(result)),
                                    !.current_turn = next_turn]
                    /\ ui' = [event |-> "run", error |-> NoneVal, requested |-> next_turn]
               ELSE /\ session_state' = StopSession(ss)
                    /\ ui' = [event |-> "run", error |-> result.error,
                              requested |-> next_turn]
    /\ UNCHANGED << held, template_file, sidebar >>

\* The user changes the sidebar widgets; the turn limit is left alone.
\* The script run this causes is one of the runs above or does nothing.
EditSidebar(cfg) ==
    /\ cfg # sidebar
    /\ cfg.max_turns = sidebar.max_turns
    /\ sidebar' = cfg
    /\ UNCHANGED << config, messages, last, held, template_file, session_state, ui >>

\* The backend outcomes and template files explored under the front-end.
DriverBackends ==
    { [kind |-> "ok", content |-> Str(<<"hello">>), has_usage |-> TRUE],
      [kind |-> "ok", content |-> Str(<<>>), has_usage |-> FALSE],
      [kind |-> "ok", content |-> NoneVal, has_usage |-> TRUE],
      [kind |-> "exception", content |-> NoneVal, has_usage |-> FALSE],
      [kind |-> "malformed", content |-> NoneVal, has_usage |-> FALSE] }

DriverTemplateFiles ==
    { file \in TemplateFiles :
        \/ ~file.exists
        \/ file.readable /\ Head(file.text) \in {WS, "Hello "} }

\* The state when the page is first opened.
InitDriver ==
    /\ model_a_client = NoOrchestrator.model_a_client
    /\ model_b_client = NoOrchestrator.model_b_client
    /\ model_a_persona = NoOrchestrator.model_a_persona
    /\ model_b_persona = NoOrchestrator.model_b_persona
    /\ discussion_topic = NoOrchestrator.discussion_topic
    /\ temperature = NoOrchestrator.temperature
    /\ system_prompt_template = NoOrchestrator.system_prompt_template
    /\ messages = NoOrchestrator.messages
    /\ last = NoOp
    /\ held = NoHeld
    /\ template_file \in DriverTemplateFiles
    /\ session_state = InitialSessionState
    /\ \E max_turns \in MinTurns..MaxTurn : sidebar \in Sidebars(max_turns)
    /\ ui = NoEvent

NextDriver ==
    \/ \E outcome \in ClientOutcomes : PressStart(outcome)
    \/ PressStop
    \/ PressNew
    \/ \E backend \in DriverBackends : RunConversation(backend)
    \/ \E cfg \in Sidebars(sidebar.max_turns) : EditSidebar(cfg)

SpecDriver == InitDriver /\ [][NextDriver]_vars

\* The front-end with its scheduling: Start and every successful turn end
\* in st.rerun(), so while a conversation is running the script runs again
\* and enters run_conversation; button presses are left to the user.
SpecDriverLive ==
    /\ SpecDriver
    /\ WF_vars(\E backend \in DriverBackends : RunConversation(backend))

\* ================================================================= claims
IsCall == last.op = "get_next_response"

CallOdd == last.turn_number % 2 = 1

\* The speaker the parity rule names for the turn of the last call.
ParitySpeaker == IF CallOdd THEN "Model A" ELSE "Model B"

IsPrefix(s, t) == Len(s) <= Len(t) /\ SubSeq(t, 1, Len(s)) = s

\* C1: for every get_next_response(n), n >= 1, on any transcript, the
\* resolved speaker is Model A iff n is odd: the client invoked and the
\* persona used are that speaker's, the result carries that speaker and n,
\* a success appends a message with that speaker and n; so every stored
\* message has speaker Model A iff its turn is odd.
C1_SpeakerByParity ==
    /\ IsCall =>
         /\ last.speaker = ParitySpeaker
         /\ last.client = (IF CallOdd THEN model_a_client ELSE model_b_client)
         /\ last.persona = (IF CallOdd THEN model_a_persona ELSE model_b_persona)
         /\ \A i \in 1..Len(last.calls) : last.calls[i].client = last.client
         /\ last.returned =>
              /\ last.result.speaker = ParitySpeaker
              /\ last.result.turn = last.turn_number
         /\ (last.returned /\ last.result.success) =>
              /\ messages[Len(messages)].speaker = ParitySpeaker
              /\ messages[Len(messages)].turn = last.turn_number
    /\ \A i \in 1..Len(messages) :
         /\ messages[i].turn >= 1
         /\ (messages[i].speaker = "Model A") <=> (messages[i].turn % 2 = 1)
         /\ (messages[i].speaker = "Model B") <=> (messages[i].turn % 2 = 0)

\* A successful even turn called on an empty transcript, out of sequence.
C1_Witness ==
    /\ IsCall /\ last.returned /\ last.result.success
    /\ last.turn_number = 2 /\ last.before = <<>>
    /\ messages[1].speaker = "Model B"

\* C2: after a get_next_response(n) whose provider result is a success the
\* transcript is the transcript before the call with the one message
\* (turn n, active speaker, returned content) appended, and no operation
\* but reset removes or rewrites an entry.
C2_AppendOnly ==
    /\ (IsCall /\ last.returned /\ last.result.success) =>
         /\ Len(messages) = Len(last.before) + 1
         /\ SubSeq(messages, 1, Len(last.before)) = last.before
         /\ messages[Len(messages)] =
              [content |-> last.result.content, speaker |-> last.speaker,
               turn |-> last.turn_number]
    /\ last.op # "reset" => IsPrefix(last.before, messages)

\* A success appended behind an entry that is already there.
C2_Witness ==
    /\ IsCall /\ last.returned /\ last.result.success
    /\ Len(last.before) = 1 /\ Len(messages) = 2
    /\ messages[1] # messages[2]

\* C3: when the provider call of get_next_response(n) fails, the transcript
\* is what it was before the call, the result is a failure carrying the
\* active speaker, n and an error description that is not None, and exactly
\* one provider call was made.
C3_FailureLeavesTranscript ==
    (IsCall /\ last.returned /\ ~last.result.success) =>
        /\ messages = last.before
        /\ last.result.speaker = ParitySpeaker
        /\ last.result.turn = last.turn_number
        /\ ~last.result.error.none
        /\ Len(last.calls) = 1

\* Scenario D: the provider fails for turn 3 on a transcript of two entries.
C3_Witness ==
    /\ IsCall /\ last.returned /\ ~last.result.success
    /\ last.turn_number = 3 /\ Len(last.before) = 2
    /\ last.result.speaker = "Model A" /\ Len(messages) = 2


\* The view of the last call and its entries after the system message.
View == last.context_messages

NonSystem == SelectSeq(View, LAMBDA m : m.role # "system")

\* The transcript before the last call alternates A, B, A, B, ...
Alternating(msgs) ==
    \A i \in 1..Len(msgs) :
        msgs[i].speaker = (IF i % 2 = 1 THEN "Model A" ELSE "Model B")

\* The last call built a view for the speaker who follows the k alternating
\* messages of the transcript.
NextSpeakerCall ==
    /\ IsCall /\ last.built
    /\ Alternating(last.before)
    /\ last.turn_number % 2 = (Len(last.before) + 1) % 2

OtherRole(r) == IF r = "user" THEN "assistant" ELSE "user"

\* C4: in the view built from a non-bootstrap transcript every transcript
\* entry appears once, in order, with role assistant iff its stored speaker
\* is the active speaker and role user iff it is the other speaker, for
\* every transcript any sequence of calls can produce.
C4_RoleByAuthor ==
    (IsCall /\ last.built /\ ~(last.before = <<>> /\ last.speaker = "Model A")) =>
        LET k == Len(last.before) IN
        /\ Len(View) \in {k + 1, k + 2}
        /\ \A i \in 1..k :
             /\ View[i + 1].content = last.before[i].content
             /\ (View[i + 1].role = "assistant") <=> (last.before[i].speaker = last.speaker)
             /\ (View[i + 1].role = "user") <=> (last.before[i].speaker # last.speaker)

OpeningMessage == [role |-> "user", content |-> StartPrompt(discussion_topic)]

BootstrapCase == last.before = <<>> /\ last.speaker = "Model A"

\* C7: the view is the bootstrap view (one system message, then the one
\* user message asking to start a conversation about the topic, nothing
\* replayed) iff the transcript is empty and the active speaker is A;
\* otherwise the view holds no opening prompt.
C7_BootstrapIff ==
    (IsCall /\ last.built) =>
        /\ (Len(View) = 2 /\ View[1].role = "system" /\ View[2] = OpeningMessage)
              <=> BootstrapCase
        /\ ~BootstrapCase =>
              \A i \in 1..Len(View) : View[i].content # OpeningMessage.content

\* The first turn of a session: Model A called on the empty transcript.
C7_Witness ==
    /\ IsCall /\ last.built /\ BootstrapCase
    /\ last.turn_number = 1
    /\ View = << View[1], OpeningMessage >>

\* The template with every {topic} field replaced by the topic.
RECURSIVE SubstTopic(_, _)
SubstTopic(template, topic) ==
    IF template = <<>> THEN <<>>
    ELSE (IF Head(template) = TopicField THEN topic ELSE <<Head(template)>>)
         \o SubstTopic(Tail(template), topic)

\* The system content for a speaker: persona, blank line, filled template.
SystemContentFor(speaker) ==
    Str((IF speaker = "Model A" THEN model_a_persona ELSE model_b_persona)
        \o <<"\n\n">> \o SubstTopic(system_prompt_template, discussion_topic))

\* C8: every view passed to a provider is non-empty and has exactly one
\* system message, at position 0, whose content is the active speaker's
\* persona followed by the template with {topic} replaced by the topic;
\* every other entry has role user or assistant.
C8_ViewShape ==
    IsCall =>
        \A c \in 1..Len(last.calls) :
            LET sent == last.calls[c].messages IN
            /\ Len(sent) >= 1
            /\ sent[1].role = "system"
            /\ sent[1].content = SystemContentFor(ParitySpeaker)
            /\ \A i \in 2..Len(sent) : sent[i].role \in {"user", "assistant"}

\* Model B's provider receives a view over a file template that had to be
\* stripped and filled.
C8_Witness ==
    /\ IsCall /\ Len(last.calls) = 1
    /\ last.speaker = "Model B"
    /\ system_prompt_template = <<"Discuss ", TopicField, " briefly.">>
    /\ Len(last.calls[1].messages) = 2
    /\ last.calls[1].messages[1].content =
         Str(model_b_persona \o <<"\n\n", "Discuss ">> \o discussion_topic \o <<" briefly.">>)

\* C9: get_next_response never lets an exception escape; every call
\* returns a result record.
C9_NeverRaises == IsCall => (last.raised = "none" /\ last.returned)

\* The view of the first turn of a session with this configuration.
BootstrapView ==
    << [role |-> "system", content |-> SystemContentFor("Model A")], OpeningMessage >>

\* C10: reset empties the transcript and changes nothing else, the
\* transcript read after it is empty, and get_next_response(1) after a
\* reset builds the view that get_next_response(1) builds on a newly
\* constructed orchestrator.
C10_ResetBootstraps ==
    [][ /\ last'.op = "reset" => (messages' = <<>> /\ UNCHANGED config)
        /\ (last'.op = "get_conversation_transcript" /\ last'.prev = "reset") =>
               last'.transcript = <<>>
        /\ (last'.op = "get_next_response" /\ last'.turn_number = 1
               /\ last'.prev \in {"reset", "init"} /\ last'.built) =>
               last'.context_messages = BootstrapView' ]_vars

\* A reset that followed two recorded turns.
C10_Witness ==
    /\ last.op = "reset" /\ last.prev = "other"
    /\ Len(last.before) = 2
    /\ messages = <<>>


IsRead == last.op = "get_conversation_transcript"

\* C11: get_conversation_transcript leaves the orchestrator as it is and
\* returns the current transcript, and two calls with no other operation
\* between them return equal sequences.
C11_PureQuery ==
    [][ last'.op = "get_conversation_transcript" =>
          /\ UNCHANGED << config, messages >>
          /\ last'.transcript = messages
          /\ IsRead => last'.transcript = last.transcript ]_vars

\* The second of two reads in a row of a transcript of two entries.
C11_Witness ==
    /\ IsRead /\ last.prev = "get_conversation_transcript"
    /\ Len(messages) = 2
    /\ last.transcript = messages

\* C12: a list returned by get_conversation_transcript keeps the length
\* and the entries it had when it was returned, whatever successful
\* get_next_response or reset follows.
C12_Snapshot == held.taken => HeldValue = held.at_return

\* A list returned with one entry, and a successful turn after it.
C12_Witness ==
    /\ held.taken /\ Len(held.at_return) = 1
    /\ IsCall /\ last.returned /\ last.result.success
    /\ Len(messages) = 2
    /\ Len(HeldValue) = 1


\* C14: every message stored in the transcript has non-empty text content.
C14_NonEmptyContent ==
    \A i \in 1..Len(messages) :
        ~messages[i].content.none /\ messages[i].content.text # <<>>

\* C15: generate_response never raises; the record it returns has error
\* None when success is true, and content, finish_reason, usage and
\* elapsed_time None and an error description when success is false.
C15_ResultRecord ==
    IsCall =>
        /\ Len(last.calls) >= 1 => (last.returned /\ last.raised = "none")
        /\ (last.returned /\ last.result.success) => last.result.error.none
        /\ (last.returned /\ ~last.result.success) =>
             /\ last.result.content.none
             /\ last.result.finish_reason.none
             /\ last.result.usage.none
             /\ last.result.elapsed_time.none
             /\ ~last.result.error.none

\* A response without choices, reported as a failure.
C15_Witness ==
    /\ IsCall /\ last.returned /\ ~last.result.success
    /\ last.result.error = Str(<<"list index out of range">>)
    /\ Len(last.calls) = 1

\* The transcript holds the turns 1, 2, ... in order.
SeqTurns(msgs) == \A i \in 1..Len(msgs) : msgs[i].turn = i

IsContinue(m) == m.role = "user" /\ m.content = ContinuePrompt

\* C17: a call with the next sequential turn number on a transcript of
\* sequential turns builds a view without the trailing "Please continue
\* the conversation." message; in any view that message is present only
\* when the last replayed entry has role assistant, and then once, as the
\* final entry.
C17_ContinueOnlyOutOfSequence ==
    (IsCall /\ last.built) =>
        LET k == Len(last.before)
            own_last == ~BootstrapCase /\ k >= 1 /\ View[k + 1].role = "assistant"
        IN
        /\ (SeqTurns(last.before) /\ last.turn_number = k + 1) =>
              \A i \in 1..Len(View) : ~IsContinue(View[i])
        /\ own_last => (Len(View) = k + 2 /\ IsContinue(View[k + 2]))
        /\ \A i \in 1..Len(View) : IsContinue(View[i]) => (own_last /\ i = Len(View))

\* Turn 3 requested after the turns 1 and 2: nothing is added to the replay.
C17_Witness ==
    /\ IsCall /\ last.built
    /\ SeqTurns(last.before) /\ Len(last.before) = 2 /\ last.turn_number = 3
    /\ Len(View) = 3
    /\ ~IsContinue(View[3])

\* C18: every view handed to a provider ends with a message of role user.
C18_EndsWithUser ==
    IsCall =>
        \A c \in 1..Len(last.calls) :
            last.calls[c].messages[Len(last.calls[c].messages)].role = "user"

\* C19: every get_next_response(n) issues exactly one generate_response
\* call, to the active speaker's client, with the orchestrator's temperature.
C19_ExactlyOneCall ==
    IsCall =>
        /\ Len(last.calls) = 1
        /\ last.calls[1].client = (IF CallOdd THEN model_a_client ELSE model_b_client)
        /\ last.calls[1].temperature = temperature


\* C13: in a conversation driven by run_conversation the transcript entry
\* at position i has turn i, so consecutive entries have different
\* speakers and the first speaker is Model A.
C13_TurnsSequential ==
    \A i \in 1..Len(messages) :
        /\ messages[i].turn = i
        /\ messages[i].speaker = (IF i % 2 = 1 THEN "Model A" ELSE "Model B")
        /\ i > 1 => messages[i].speaker # messages[i - 1].speaker

\* A second conversation that has recorded its third turn.
C13_Witness ==
    /\ session_state.orchestrator = "orchestrator"
    /\ Len(messages) = 3
    /\ messages[3].turn = 3
    /\ last.prev = "other"

\* Some required field of the sidebar configuration is empty.
InvalidConfig ==
    \/ sidebar.model_a.api_key = <<>>
    \/ sidebar.model_b.api_key = <<>>
    \/ sidebar.model_a.name = <<>>
    \/ sidebar.model_b.name = <<>>
    \/ sidebar.discussion_topic = <<>>

\* C16: Start pressed with an invalid configuration is rejected with an
\* error message and changes nothing: is_running stays false, and the
\* history, the turn counter, the stop flag, the orchestrator and both
\* clients are as before.
C16_InvalidStartRejected ==
    [][ (InvalidConfig /\ \E outcome \in ClientOutcomes : PressStart(outcome)) =>
          /\ ui'.event = "start"
          /\ ~ui'.error.none
          /\ ~session_state'.is_running
          /\ session_state' = session_state
          /\ UNCHANGED << config, messages, last >> ]_vars

\* Start rejected for an empty topic while an earlier conversation is kept.
C16_Witness ==
    /\ ui.event = "start"
    /\ ui.error = Str(<<"Discussion topic is required">>)
    /\ sidebar.discussion_topic = <<>>
    /\ Len(session_state.conversation_history) >= 1
    /\ session_state.orchestrator = "orchestrator"
    /\ ~session_state.is_running

\* C20: with max_turns fixed, run_conversation requests only turns n with
\* 1 <= n <= max_turns, so current_turn, the history and the transcript
\* never exceed max_turns.
C20_WithinLimit ==
    /\ (ui.event = "run" /\ ui.requested # 0) =>
          /\ 1 <= ui.requested /\ ui.requested <= sidebar.max_turns
          /\ IsCall /\ last.turn_number = ui.requested
    /\ IsCall => (1 <= last.turn_number /\ last.turn_number <= sidebar.max_turns)
    /\ session_state.current_turn <= sidebar.max_turns
    /\ Len(session_state.conversation_history) <= sidebar.max_turns
    /\ Len(messages) <= sidebar.max_turns

\* The run that finds the limit reached and ends the conversation.
C20_Witness ==
    /\ ui.event = "run" /\ ui.requested = 0
    /\ ~session_state.is_running /\ ~session_state.stop_requested
    /\ session_state.current_turn = sidebar.max_turns
    /\ Len(messages) = sidebar.max_turns


\* A stop has been requested: the flag is set, or the last script run was
\* the Stop button or a run_conversation whose turn result was a failure.
StopRequested ==
    \/ session_state.stop_requested
    \/ ui.event = "stop"
    \/ /\ ui.event = "run" /\ ui.requested # 0
       /\ last.raised = "none" /\ ~last.result.success

\* A step that is a script run entering run_conversation: the session is
\* running and the run ends as a "run" event.
RunStep == session_state.is_running /\ ui'.event = "run" /\ sidebar' = sidebar

\* A step that makes no orchestrator call and leaves the transcript, the
\* history and the turn counter as they are.
QuietStep ==
    /\ RunStep => (ui'.requested = 0 /\ last' = last)
    /\ messages' = messages
    /\ session_state'.conversation_history = session_state.conversation_history
    /\ session_state'.current_turn = session_state.current_turn

\* A step after which the session is discarded by the button `event`.
ResetStep(event) ==
    /\ ui'.event = event
    /\ messages' = <<>>
    /\ session_state'.conversation_history = <<>>
    /\ session_state'.current_turn = 0
    /\ session_state'.orchestrator = "None"
    /\ ~session_state'.stop_requested

FailedTurnStep ==
    /\ RunStep
    /\ ui'.requested # 0
    /\ last'.raised = "none"
    /\ ~last'.result.success

\* C22: a failed turn result sets is_running = false and stop_requested =
\* true and leaves current_turn and conversation_history unchanged, and no
\* turn number is requested twice from the same orchestrator instance.
C22_OneAttemptPerTurn ==
    [][ /\ FailedTurnStep =>
              /\ ~session_state'.is_running
              /\ session_state'.stop_requested
              /\ session_state'.current_turn = session_state.current_turn
              /\ session_state'.conversation_history =
                     session_state.conversation_history
        /\ (RunStep /\ ui'.requested # 0) => ui'.requested > ui.requested ]_vars

\* C22 for the script runs that do not follow a run ended by an exception.
C22_UnlessRaised ==
    [][ last.raised = "none" =>
          /\ FailedTurnStep =>
                /\ ~session_state'.is_running
                /\ session_state'.stop_requested
                /\ session_state'.current_turn = session_state.current_turn
                /\ session_state'.conversation_history =
                       session_state.conversation_history
          /\ (RunStep /\ ui'.requested # 0) => ui'.requested > ui.requested ]_vars


\* C23: with max_turns fixed and every provider call returning, a started
\* conversation terminates: is_running = true leads to is_running = false.
C23_Terminates ==
    session_state.is_running ~> ~session_state.is_running

\* C23 for the behaviours in which no orchestrator call ever raises.
C23_UnlessRaised ==
    <>(last.raised # "none") \/ C23_Terminates


\* The last script run was a successful Start or a New Conversation press.
SessionDiscarded ==
    \/ ui.event = "start" /\ ui.error.none
    \/ ui.event = "new"

\* C24: after a successful Start or a New Conversation press the history is
\* empty, current_turn is 0, stop_requested is false and the orchestrator
\* is absent; the next turn requested is turn 1 on a newly constructed
\* orchestrator with an empty transcript, whose view is the bootstrap
\* view; and only Start sets is_running.
C24_ResetDiscardsSession ==
    [][ /\ SessionDiscarded' =>
              /\ session_state'.conversation_history = <<>>
              /\ session_state'.current_turn = 0
              /\ ~session_state'.stop_requested
              /\ session_state'.orchestrator = "None"
              /\ messages' = <<>>
              /\ session_state'.is_running <=> ui'.event = "start"
        /\ (SessionDiscarded /\ RunStep /\ ui'.requested # 0) =>
              /\ ui'.requested = 1
              /\ last'.op = "get_next_response" /\ last'.turn_number = 1
              /\ last'.prev = "init" /\ last'.before = <<>>
              /\ session_state'.orchestrator = "orchestrator"
              /\ discussion_topic' = sidebar.discussion_topic
              /\ system_prompt_template' = LoadSystemPrompt(template_file)
              /\ last'.built => last'.context_messages = BootstrapView'
        /\ (~session_state.is_running /\ session_state'.is_running) =>
              (ui'.event = "start" /\ ui'.error.none) ]_vars

\* New Conversation pressed after a conversation of two turns was stopped:
\* nothing of it is left.
C24_Witness ==
    /\ ui.event = "new"
    /\ session_state.conversation_history = <<>>
    /\ session_state.current_turn = 0
    /\ session_state.orchestrator = "None"
    /\ session_state.model_a_client = "client_a"
    /\ messages = <<>>

\* The first turn of a conversation started after an earlier one.
C24_WitnessFirstTurn ==
    /\ ui.event = "run" /\ ui.requested = 1
    /\ last.prev = "init" /\ last.built
    /\ last.context_messages = BootstrapView


\* The three records of progress agree.
ProgressAgrees ==
    /\ session_state.current_turn = Len(session_state.conversation_history)
    /\ session_state.current_turn = Len(messages)
    /\ \A i \in 1..Len(messages) :
          /\ session_state.conversation_history[i].turn = messages[i].turn
          /\ session_state.conversation_history[i].speaker = messages[i].speaker
          /\ session_state.conversation_history[i].content = messages[i].content

\* The script run that ends the step got a success result for its turn.
SuccessfulTurnStep ==
    /\ RunStep
    /\ ui'.requested # 0
    /\ last'.raised = "none"
    /\ last'.result.success

\* C25: whenever the orchestrator exists, current_turn, the length of
\* conversation_history and the length of the transcript are equal and the
\* i-th history entry has the turn, speaker and content of the i-th
\* transcript entry; current_turn decreases only by a reset and rises by
\* exactly 1 per successful turn.
C25_RecordsAgree ==
    /\ [](session_state.orchestrator = "orchestrator" => ProgressAgrees)
    /\ [][ /\ session_state'.current_turn < session_state.current_turn =>
                 (ResetStep("start") \/ ResetStep("new"))
           /\ session_state'.current_turn > session_state.current_turn =>
                 SuccessfulTurnStep
           /\ SuccessfulTurnStep =>
                 /\ session_state'.current_turn = session_state.current_turn + 1
                 /\ session_state'.current_turn = ui'.requested ]_vars

\* Two successful turns: counter, history and transcript all hold two.
C25_Witness ==
    /\ session_state.orchestrator = "orchestrator"
    /\ session_state.current_turn = 2
    /\ Len(session_state.conversation_history) = 2
    /\ Len(messages) = 2
    /\ session_state.conversation_history[2].content = messages[2].content
    /\ ui.event = "run" /\ ui.requested = 2 /\ last.result.success


\* The template file cannot be loaded: it is absent or reading it raises.
TemplateUnavailable == ~template_file.exists \/ ~template_file.readable

\* The text of the conversational guidelines of the built-in default.
Guidelines == DefaultTemplate[3]

\* C26: whenever the template cannot be loaded the orchestrator uses the
\* one built-in default template, which contains the {topic} field and the
\* conversational guidelines.
C26_DefaultOnLoadFailure ==
    TemplateUnavailable =>
        /\ system_prompt_template = DefaultTemplate
        /\ \E i \in 1..Len(system_prompt_template) :
              system_prompt_template[i] = TopicField
        /\ \E i \in 1..Len(system_prompt_template) :
              system_prompt_template[i] = Guidelines

\* C26 for an absent file only.
C26_DefaultWhenAbsent ==
    ~template_file.exists =>
        /\ system_prompt_template = DefaultTemplate
        /\ \E i \in 1..Len(system_prompt_template) :
              system_prompt_template[i] = Guidelines


\* C27: is_running = true implies that both clients of the session are
\* initialised and that stop_requested is false since running began, so an
\* orchestrator is never constructed with a missing client; a Start that
\* ended with an error leaves is_running false.
C27_RunningHasClients ==
    /\ session_state.is_running =>
          /\ session_state.model_a_client # "None"
          /\ session_state.model_b_client # "None"
          /\ ~session_state.stop_requested
    /\ session_state.orchestrator = "orchestrator" =>
          (model_a_client # "None" /\ model_b_client # "None")
    /\ (ui.event = "start" /\ ~ui.error.none) => ~session_state.is_running

\* A running conversation whose orchestrator was built from both clients.
C27_Witness ==
    /\ session_state.is_running
    /\ session_state.orchestrator = "orchestrator"
    /\ model_a_client = "client_a" /\ model_b_client = "client_b"
    /\ Len(messages) = 1

\* A Start on which the second client could not be created.
C27_WitnessClientFailure ==
    /\ ui.event = "start"
    /\ ui.error = Str(<<"Failed to initialize clients: ", "model_b">>)
    /\ session_state.model_a_client = "client_a"
    /\ session_state.model_b_client = "None"
    /\ ~session_state.is_running

====
